---- MODULE Spec2Model ----
(***************************************************************************)
(* EV-Radar (radar_bot.py): scoring, decision and the main() cycle.        *)
(*                                                                         *)
(* Units.  The inputs are written as integers:                            *)
(*   xg_total    in hundredths       (1.85      -> 185)                    *)
(*   odds_over25 in hundredths       (1.50      -> 150)                    *)
(*   pressure, sot, liquidity        as given   (74, 8, 2900000)           *)
(* The scorer's arithmetic is done on the doubles these denote.            *)
(* A match is a function from the keys it has to their values, so a        *)
(* missing key is a key outside DOMAIN, as for a Python dict.              *)
(* The key "id" stands for the identity of the event (id/league/home/away).*)
(***************************************************************************)
EXTENDS Integers, Sequences, FiniteSets, TLC

VARIABLES
    pc,             \* position in main(): idle, loop, done (about to return), exited
    telegram_env,   \* TRUE iff TELEGRAM_TOKEN and TELEGRAM_CHAT_ID are set
    fetched,        \* what the fetcher returned in the current run of main
    matches,        \* main(): the sorted, capped list being iterated
    idx,            \* main(): index of the next element of matches (1-based)
    output_rows,    \* main(): rows built so far
    alerts_sent,    \* main(): counter of successful sends
    sends,          \* this run: results of the send_telegram calls, in order
    csv_rows,       \* this run: <<rows>> handed to save_csv, <<>> if not called
    csv_saved,      \* this run: "none", "written" or "failed" (save_csv's outcome)
    exit_code,      \* NotExited, else the sys.exit status
    runs,           \* number of runs of main started
    calls,          \* per identity: send_telegram calls over all runs
    enters,         \* per identity: runs in which it was decided ENTRAR
    errors,         \* exceptions caught by main's handler, by origin
    sc_match, sc_out,                   \* scorer harness: input, <<outcome, result>>
    d_match, d_s1, d_s2, d_r1, d_r2     \* decision harness: input, two scores, results

mainVars == <<pc, telegram_env, fetched, matches, idx, output_rows,
              alerts_sent, sends, csv_rows, csv_saved, exit_code, runs,
              calls, enters, errors>>
scVars   == <<sc_match, sc_out>>
dVars    == <<d_match, d_s1, d_s2, d_r1, d_r2>>
vars     == <<mainVars, scVars, dVars>>

----------------------------------------------------------------------------
(* Configuration (module level of radar_bot.py, defaults).                 *)

EV_THRESHOLD == 65
ODD_MIN      == 150
MAX_GAMES    == 10

(* A value float() rejects ("N/A", None, ...): float(v) raises.            *)
Unparseable == 0 - 1

NoResult == "none"

(* exit_code while the process has not called sys.exit.                    *)
NotExited == 0 - 1

Min(a, b) == IF a <= b THEN a ELSE b

(* dict.get(k, default) *)
Get(m, k, d) == IF k \in DOMAIN m THEN m[k] ELSE d

----------------------------------------------------------------------------
(* IEEE-754 binary64 arithmetic, as Python's float does it: every          *)
(* operation returns the exact result rounded to 53 significant bits,      *)
(* ties to even.  A non-negative double is held as the natural number      *)
(* value * 2^FracBits, written in NumLimbs limbs of base LimbBase, least   *)
(* significant limb first.  Every double met here is below 2^15 and, when  *)
(* not 0, at least 2^-22 (liquidity 1 over 3,000,000), so it is a whole    *)
(* number of units and rounding always happens above the unit.             *)

LimbBase  == 32768
LimbBits  == 15
NumLimbs  == 7
FracLimbs == 5
FracBits  == FracLimbs * LimbBits
Limbs     == 1 .. NumLimbs

RECURSIVE Pow2(_)
Pow2(n) == IF n = 0 THEN 1 ELSE 2 * Pow2(n - 1)

(* Below, CHOOSE r \in { e(N) : N \in {N0} } : TRUE is e(N0) with N0      *)
(* computed once.                                                          *)

(* A natural below 2^31 as limbs. *)
BigOfInt(a) ==
    [i \in Limbs |-> IF i = 1 THEN a % LimbBase
                     ELSE IF i = 2 THEN (a \div LimbBase) % LimbBase
                     ELSE IF i = 3 THEN a \div (LimbBase * LimbBase)
                     ELSE 0]

BigZero == BigOfInt(0)

LimbsUp(N0, k) ==
    CHOOSE r \in { [i \in Limbs |-> IF i > k THEN N[i - k] ELSE 0] : N \in {N0} } : TRUE

LimbsDown(N0, k) ==
    CHOOSE r \in { [i \in Limbs |-> IF i + k <= NumLimbs THEN N[i + k] ELSE 0]
                   : N \in {N0} } : TRUE

RECURSIVE MulCarry(_, _, _)
MulCarry(N, c, i) ==
    IF i = 1 THEN 0 ELSE (N[i - 1] * c + MulCarry(N, c, i - 1)) \div LimbBase

(* N * c for a small c *)
BigMul(N0, c) ==
    CHOOSE r \in { [i \in Limbs |-> (N[i] * c + MulCarry(N, c, i)) % LimbBase]
                   : N \in {N0} } : TRUE

RECURSIVE AddCarry(_, _, _)
AddCarry(N, M, i) ==
    IF i = 1 THEN 0 ELSE (N[i - 1] + M[i - 1] + AddCarry(N, M, i - 1)) \div LimbBase

BigAdd(N0, M0) ==
    CHOOSE r \in { [i \in Limbs |-> (N[i] + M[i] + AddCarry(N, M, i)) % LimbBase]
                   : N \in {N0}, M \in {M0} } : TRUE

(* Long division by a small d (d < 2^16): the remainder left after the     *)
(* limbs NumLimbs .. i.                                                    *)
RECURSIVE DivRem(_, _, _)
DivRem(N, d, i) ==
    IF i > NumLimbs THEN 0 ELSE (DivRem(N, d, i + 1) * LimbBase + N[i]) % d

BigDiv(N0, d) ==
    CHOOSE r \in { [i \in Limbs |-> (DivRem(N, d, i + 1) * LimbBase + N[i]) \div d]
                   : N \in {N0} } : TRUE

BigRem(N0, d) == CHOOSE r \in { DivRem(N, d, 1) : N \in {N0} } : TRUE

BigLess(N0, M0) ==
    \E N \in {N0}, M \in {M0} :
        \E i \in Limbs : N[i] < M[i] /\ \A j \in Limbs : j > i => N[j] = M[j]

(* Number of significant bits of N. *)
BitLen(N0) ==
    CHOOSE r \in {
        IF N = BigZero THEN 0
        ELSE LET h == CHOOSE i \in Limbs : N[i] # 0 /\ \A j \in Limbs : j > i => N[j] = 0
             IN  (h - 1) * LimbBits
                 + (CHOOSE k \in 1 .. LimbBits : Pow2(k) > N[h] /\ Pow2(k - 1) <= N[h])
        : N \in {N0} } : TRUE

(* N * 2^s *)
ShiftLeft(N, s) == BigMul(LimbsUp(N, s \div LimbBits), Pow2(s % LimbBits))

(* floor(N / 2^s) *)
ShiftRight(N, s) == BigDiv(LimbsDown(N, s \div LimbBits), Pow2(s % LimbBits))

(* whether floor(N / 2^s) drops a non-zero bit *)
ShiftLoses(N0, s) ==
    \E N \in {N0} :
        \/ \E i \in Limbs : i <= s \div LimbBits /\ N[i] # 0
        \/ BigRem(LimbsDown(N, s \div LimbBits), Pow2(s % LimbBits)) # 0

(* The exact value is N, plus a fraction in (0,1) iff sticky: that value   *)
(* over 2^s, rounded to an integer, ties to even.                          *)
RoundAt(N0, s, sticky) ==
    CHOOSE r \in {
        IF q2[1] % 2 = 1 /\ (sticky \/ ShiftLoses(N, s - 1) \/ (q2[1] \div 2) % 2 = 1)
        THEN BigAdd(BigDiv(q2, 2), BigOfInt(1))
        ELSE BigDiv(q2, 2)
        : <<N, q2>> \in { <<M, ShiftRight(M, s - 1)>> : M \in {N0} } } : TRUE

(* The double nearest to the exact value N (plus a fraction iff sticky). *)
Round53(N0, sticky) ==
    CHOOSE r \in {
        IF len <= 53 THEN N
        ELSE ShiftLeft(RoundAt(N, len - 53, sticky), len - 53)
        : <<N, len>> \in { <<M, BitLen(M)>> : M \in {N0} } } : TRUE

(* float(a) for an integer a *)
FloatOfInt(a) == LimbsUp(BigOfInt(a), FracLimbs)

(* float(a) / float(d) for integers a and d, d = odd * 2^twos, odd < 2^16 *)
FloatRatio(a, odd, twos) ==
    CHOOSE r \in { Round53(BigDiv(N, odd), BigRem(N, odd) # 0)
                   : N \in {ShiftLeft(BigOfInt(a), FracBits - twos)} } : TRUE

(* X / float(d), X * float(c), X + Y for doubles X, Y and small integers *)
FloatDiv(X0, d) ==
    CHOOSE r \in { Round53(BigDiv(X, d), BigRem(X, d) # 0) : X \in {X0} } : TRUE
FloatMul(X, c) == Round53(BigMul(X, c), FALSE)
FloatAdd(X, Y) == Round53(BigAdd(X, Y), FALSE)

(* min(X, Y), max(X, Y) *)
FloatMin(X0, Y0) ==
    CHOOSE r \in { IF BigLess(Y, X) THEN Y ELSE X : X \in {X0}, Y \in {Y0} } : TRUE
FloatMax(X0, Y0) ==
    CHOOSE r \in { IF BigLess(X, Y) THEN Y ELSE X : X \in {X0}, Y \in {Y0} } : TRUE

(* The double a decimal literal with two decimals denotes: xg_total given  *)
(* in hundredths.                                                          *)
FloatOfHundredths(h) == FloatRatio(h, 25, 2)

(* int(round(X)): round half to even on the double's exact value. *)
RoundHalfEven(X) ==
    CHOOSE n \in { r[1] + r[2] * LimbBase : r \in {RoundAt(X, FracBits, FALSE)} } : TRUE

(* score = max(0.0, min(100.0, score)) *)
Clamp(X) == FloatMax(BigZero, FloatMin(FloatOfInt(100), X))

(* float(...) of one of the four signals raises: a value float() rejects.  *)
score_raises(match) ==
    \E k \in {"pressure", "xg_total", "sot", "liquidity"} :
        k \in DOMAIN match /\ match[k] = Unparseable

(* The four contributions, each a double.                                  *)
PressurePoints(match) ==        \* (pressure / 100.0) * 20.0
    FloatMul(FloatRatio(Get(match, "pressure", 50), 25, 2), 20)

XgPoints(match) ==              \* min(xg / 3.0, 1.0) * 30.0
    FloatMul(FloatMin(FloatDiv(FloatOfHundredths(Get(match, "xg_total", 0)), 3),
                      FloatOfInt(1)), 30)

SotPoints(match) ==             \* min(sot / 10.0, 1.0) * 20.0
    FloatMul(FloatMin(FloatRatio(Get(match, "sot", 0), 5, 1), FloatOfInt(1)), 20)

LiquidityPoints(match) ==       \* min(liquidity / 3_000_000.0, 1.0) * 10.0
    FloatMul(FloatMin(FloatRatio(Get(match, "liquidity", 0), 46875, 6),
                      FloatOfInt(1)), 10)

(* RawScore without the second fixed bonus.                                *)
RawScore_NoHistoryBonus(match) ==
    FloatAdd(FloatAdd(FloatAdd(FloatAdd(PressurePoints(match), XgPoints(match)),
                               SotPoints(match)),
                      LiquidityPoints(match)),
             FloatOfInt(6))

(* The score before the clamp: the running sum of the four contributions   *)
(* and the two fixed bonuses, in the order of the code.                    *)
RawScore(match) ==
    FloatAdd(FloatAdd(FloatAdd(FloatAdd(FloatAdd(PressurePoints(match),
                                                 XgPoints(match)),
                                        SotPoints(match)),
                               LiquidityPoints(match)),
                      FloatOfInt(6)),           \* need/importance
             FloatOfInt(4))                     \* historical tendency

(* compute_ev_score with nothing bounding it: xg is not capped at 3.0 and  *)
(* the clamped value is not the one returned.                              *)
compute_ev_score_Unbounded(match) ==
    LET xg == FloatMul(FloatDiv(FloatOfHundredths(Get(match, "xg_total", 0)), 3), 30)
    IN  RoundHalfEven(
          FloatAdd(FloatAdd(FloatAdd(FloatAdd(FloatAdd(PressurePoints(match), xg),
                                              SotPoints(match)),
                                     LiquidityPoints(match)),
                            FloatOfInt(6)),
                   FloatOfInt(4)))

compute_ev_score(match) == RoundHalfEven(Clamp(RawScore(match)))

(* float(match.get("odds_over25", 99)) raises; the call is only reached    *)
(* when the left operand of the `and` is true.                             *)
decide_raises(match, ev_score) ==
    /\ ev_score >= EV_THRESHOLD
    /\ Get(match, "odds_over25", 9900) = Unparseable

(* decide_action with a strict comparison against EV_THRESHOLD.            *)
decide_action_StrictEnter(match, ev_score) ==
    IF ev_score > EV_THRESHOLD /\ Get(match, "odds_over25", 9900) >= ODD_MIN
    THEN [decision |-> "ENTRAR", suggestion |-> "Stake 1% (ajustar conforme banca)"]
    ELSE IF 55 <= ev_score /\ ev_score < EV_THRESHOLD
    THEN [decision |-> "MONITORAR", suggestion |-> "Aguardar confirmação"]
    ELSE [decision |-> "IGNORAR", suggestion |-> "Sem stake"]

(* decide_action with a strict lower limit of the MONITORAR band.          *)
decide_action_StrictMonitor(match, ev_score) ==
    IF ev_score >= EV_THRESHOLD /\ Get(match, "odds_over25", 9900) >= ODD_MIN
    THEN [decision |-> "ENTRAR", suggestion |-> "Stake 1% (ajustar conforme banca)"]
    ELSE IF 55 < ev_score /\ ev_score < EV_THRESHOLD
    THEN [decision |-> "MONITORAR", suggestion |-> "Aguardar confirmação"]
    ELSE [decision |-> "IGNORAR", suggestion |-> "Sem stake"]

decide_action(match, ev_score) ==
    IF ev_score >= EV_THRESHOLD /\ Get(match, "odds_over25", 9900) >= ODD_MIN
    THEN [decision |-> "ENTRAR", suggestion |-> "Stake 1% (ajustar conforme banca)"]
    ELSE IF 55 <= ev_score /\ ev_score < EV_THRESHOLD
    THEN [decision |-> "MONITORAR", suggestion |-> "Aguardar confirmação"]
    ELSE [decision |-> "IGNORAR", suggestion |-> "Sem stake"]

----------------------------------------------------------------------------
(* Initial values of the variables of main().                              *)

(* Identities: the k-th record of a feed is event k.                        *)
MaxFeed == 3
Ids == 1 .. MaxFeed

MainIdle ==
    /\ pc = "idle"
    /\ fetched = <<>>
    /\ matches = <<>>
    /\ idx = 1
    /\ output_rows = <<>>
    /\ alerts_sent = 0
    /\ sends = <<>>
    /\ csv_rows = <<>>
    /\ csv_saved = "none"
    /\ exit_code = NotExited
    /\ runs = 0
    /\ calls = [i \in Ids |-> 0]
    /\ enters = [i \in Ids |-> 0]
    /\ errors = <<>>

ScIdle == sc_match = <<>> /\ sc_out = <<>>
DIdle  == d_match = <<>> /\ d_s1 = 0 /\ d_s2 = 0 /\ d_r1 = NoResult /\ d_r2 = NoResult

----------------------------------------------------------------------------
(* Scorer harness: compute_ev_score applied to records of the declared     *)
(* domains (pressure 0..100, xg_total >= 0, sot >= 0, liquidity >= 0), any *)
(* of the four keys possibly missing.                                      *)

MaxSot == 12

(* The values include the inputs whose exact sum is a half (pressure 2     *)
(* with xg 1.71; pressure 1 with xg 1.58 and liquidity 150000; pressure 0  *)
(* with xg 1.65 and liquidity 1500000; pressure 94 with xg 0.07), where    *)
(* the double sum falls on either side of it.                              *)
SignalKeys    == {"pressure", "xg_total", "sot", "liquidity"}
PressureVals  == {0, 1, 2, 50, 94, 100}
XgVals        == {0, 7, 158, 165, 171, 300, 305, 450}
SotVals       == {0, 1, 10, MaxSot}
LiquidityVals == {0, 100, 150000, 1500000, 3000000, 4200000}

MissingKeySets == {{}, {"pressure"}, {"xg_total"}, {"sot"}, {"liquidity"}, SignalKeys}

InitScorer ==
    /\ MainIdle /\ telegram_env = FALSE
    /\ DIdle
    /\ \/ \E K \in MissingKeySets :
            \E p \in PressureVals, x \in XgVals, s \in SotVals, l \in LiquidityVals :
               sc_match = [k \in SignalKeys \ K |->
                              IF k = "pressure" THEN p
                              ELSE IF k = "xg_total" THEN x
                              ELSE IF k = "sot" THEN s ELSE l]
       \/ \E bad \in SignalKeys :
            sc_match = [k \in SignalKeys |-> IF k = bad THEN Unparseable ELSE 1]
    /\ sc_out = <<>>

(* The call returns <<"ok", score>> or ends in <<"raised", 0>>.             *)
CallComputeEvScore ==
    /\ sc_out = <<>>
    /\ sc_out' = IF score_raises(sc_match) THEN <<"raised", 0>>
                 ELSE <<"ok", compute_ev_score(sc_match)>>
    /\ UNCHANGED <<sc_match, mainVars, dVars>>

NextScorer == CallComputeEvScore

SpecScorer == InitScorer /\ [][NextScorer]_vars

----------------------------------------------------------------------------
(* Decision harness: decide_action applied to one record and two scores.   *)

OddsVals == {100, 144, 149, 150, 160, 182}
EvScores == 0 .. 100

InitDecide ==
    /\ MainIdle /\ telegram_env = FALSE
    /\ ScIdle
    /\ \/ \E o \in OddsVals : d_match = [k \in {"odds_over25"} |-> o]
       \/ d_match = <<>>
    /\ d_s1 \in EvScores
    /\ d_s2 \in EvScores
    /\ d_r1 = NoResult
    /\ d_r2 = NoResult

CallDecideAction ==
    /\ d_r1 = NoResult
    /\ d_r1' = decide_action(d_match, d_s1).decision
    /\ d_r2' = decide_action(d_match, d_s2).decision
    /\ UNCHANGED <<d_match, d_s1, d_s2, mainVars, scVars>>

NextDecide == CallDecideAction

SpecDecide == InitDecide /\ [][NextDecide]_vars

----------------------------------------------------------------------------
(* The cycle: main().                                                      *)

MaxCycles == 2

(* Signal profiles a feed is made of.  The first three are the rows of     *)
(* fetch_live_matches_demo (scores 69, 64, 86); the fourth has a high      *)
(* score (80), little liquidity and odds 1.60; the fifth has odds that     *)
(* float() rejects and no liquidity; the last a pressure that float()      *)
(* rejects.                                                                *)
Profiles == {
    [xg_total |-> 185, sot |-> 8,  pressure |-> 74,  odds_over25 |-> 182, liquidity |-> 2900000],
    [xg_total |-> 152, sot |-> 8,  pressure |-> 77,  odds_over25 |-> 150, liquidity |-> 2300000],
    [xg_total |-> 305, sot |-> 12, pressure |-> 79,  odds_over25 |-> 144, liquidity |-> 4200000],
    [xg_total |-> 300, sot |-> 10, pressure |-> 100, odds_over25 |-> 160, liquidity |-> 100],
    [xg_total |-> 300, sot |-> 10, pressure |-> 100, odds_over25 |-> Unparseable],
    [pressure |-> Unparseable, odds_over25 |-> 160, liquidity |-> 100] }

(* compute_ev_score on the profiles, computed once. *)
ScoreOfProfile ==
    [p \in Profiles |-> IF score_raises(p) THEN 0 ELSE compute_ev_score(p)]

(* The signals of a fetched record: the record without its identity. *)
Signals(m) == [k \in DOMAIN m \ {"id"} |-> m[k]]

(* The lists a data provider can hold: record k carries identity k.        *)
Feeds ==
    UNION { { [k \in 1 .. n |-> ("id" :> k) @@ f[k]] : f \in [1 .. n -> Profiles] }
            : n \in 0 .. MaxFeed }

(* seq[:n] *)
Take(seq, n) == SubSeq(seq, 1, Min(n, Len(seq)))

(* fetch_live_matches_demo: demo[:MAX_GAMES] *)
fetch_live_matches_demo(demo) == Take(demo, MAX_GAMES)

(* fetch_live_matches_prod always raises NotImplementedError.              *)
fetch_live_matches_prod_raises == TRUE

(* The fetch of main: in PROD mode the NotImplementedError is caught and   *)
(* the demo provider is used instead.                                      *)
fetch_matches(mode, demo) ==
    IF mode = "PROD" /\ ~fetch_live_matches_prod_raises
    THEN <<>>
    ELSE fetch_live_matches_demo(demo)

(* key=lambda m: m.get("liquidity",0) *)
SortKey(m) == Get(m, "liquidity", 0)

(* sorted(..., reverse=True) is stable: m goes after every element whose   *)
(* key is >= its own.                                                      *)
InsertDesc(sorted, m) ==
    LET before == { i \in 1 .. Len(sorted) : SortKey(sorted[i]) >= SortKey(m) }
        n      == Cardinality(before)
    IN  SubSeq(sorted, 1, n) \o <<m>> \o SubSeq(sorted, n + 1, Len(sorted))

RECURSIVE SortedDesc(_)
SortedDesc(seq) ==
    IF seq = <<>> THEN <<>>
    ELSE InsertDesc(SortedDesc(SubSeq(seq, 1, Len(seq) - 1)), seq[Len(seq)])

(* sorted(matches, key=..., reverse=True)[:MAX_GAMES] *)
sort_and_cap(ms) == Take(SortedDesc(ms), MAX_GAMES)

(* send_telegram without its try/except: a failing request raises.        *)
send_telegram_Uncaught(env) == IF ~env THEN {"skipped"} ELSE {"sent", "raised"}

(* send_telegram: the ways a call can end.  It returns False without a     *)
(* request when the environment is not set, True after a good request, and *)
(* False when the request raises (the exception is caught inside).         *)
send_telegram(env) == IF ~env THEN {"skipped"} ELSE {"sent", "failed"}

(* The alert made for every record, whatever its decision.                 *)
should_alert_Always(m) == TRUE

(* if m.get("decision") == "ENTRAR" *)
should_alert(m) == Get(m, "decision", NoResult) = "ENTRAR"

(* m after m["ev_score"], m["decision"], m["suggestion"] are assigned; the *)
(* row copies these keys of m (timestamp left out).                        *)
Annotated(m, ev, info) ==
    ("ev_score" :> ev) @@ ("decision" :> info.decision)
        @@ ("suggestion" :> info.suggestion) @@ m

Init ==
    /\ MainIdle
    /\ telegram_env \in BOOLEAN
    /\ ScIdle
    /\ DIdle

(* main() up to the loop: fetch under either value of MODE, sort, cap,     *)
(* initialise the accumulators.                                            *)
StartMain ==
    /\ pc = "idle"
    /\ runs < MaxCycles
    /\ \E demo \in Feeds, mode \in {"DEMO", "PROD"} :
         LET got == fetch_matches(mode, demo) IN
           /\ fetched' = got
           /\ matches' = sort_and_cap(got)
    /\ idx' = 1
    /\ output_rows' = <<>>
    /\ alerts_sent' = 0
    /\ runs' = runs + 1
    /\ pc' = "loop"
    /\ UNCHANGED <<telegram_env, sends, csv_rows, csv_saved, exit_code, calls,
                   enters, errors, scVars, dVars>>

(* except Exception: logger.exception(...); sys.exit(1) *)
Fatal(origin) ==
    /\ errors' = Append(errors, origin)
    /\ exit_code' = 1
    /\ pc' = "exited"
    /\ UNCHANGED <<matches, idx, output_rows, alerts_sent, sends, calls, enters>>

(* One iteration of `for m in matches`.                                    *)
ProcessMatch ==
    /\ pc = "loop"
    /\ idx <= Len(matches)
    /\ LET m  == matches[idx]
           ev == ScoreOfProfile[Signals(m)]
       IN  IF score_raises(m)
           THEN Fatal("compute_ev_score")
           ELSE IF decide_raises(m, ev)
           THEN Fatal("decide_action")
           ELSE LET m2 == Annotated(m, ev, decide_action(m, ev)) IN
                IF should_alert(m2)
                THEN \E ok \in send_telegram(telegram_env) :
                       IF ok = "raised"
                       THEN Fatal("send_telegram")
                       ELSE /\ matches' = [matches EXCEPT ![idx] = m2]
                            /\ output_rows' = Append(output_rows, m2)
                            /\ sends' = Append(sends, [id |-> m2["id"], result |-> ok])
                            /\ calls' = [calls EXCEPT ![m2["id"]] = @ + 1]
                            /\ enters' = [enters EXCEPT ![m2["id"]] = @ + 1]
                            /\ alerts_sent' = IF ok = "sent" THEN alerts_sent + 1
                                              ELSE alerts_sent
                            /\ idx' = idx + 1
                            /\ UNCHANGED <<pc, exit_code, errors>>
                ELSE /\ matches' = [matches EXCEPT ![idx] = m2]
                     /\ output_rows' = Append(output_rows, m2)
                     /\ idx' = idx + 1
                     /\ UNCHANGED <<pc, exit_code, errors, sends, calls, enters,
                                    alerts_sent>>
    /\ UNCHANGED <<telegram_env, fetched, csv_rows, csv_saved, runs, scVars, dVars>>

(* After the loop: save_csv(output_rows); its own failure is caught and    *)
(* logged inside save_csv.                                                 *)
SaveCsv ==
    /\ pc = "loop"
    /\ idx > Len(matches)
    /\ csv_rows' = <<output_rows>>
    /\ csv_saved' \in {"written", "failed"}
    /\ pc' = "done"
    /\ UNCHANGED <<telegram_env, fetched, matches, idx, output_rows, alerts_sent,
                   sends, exit_code, runs, calls, enters, errors, scVars, dVars>>

(* main returns: its locals, and the record of what this run did, are     *)
(* gone; the caller may run main again.                                    *)
ReturnMain ==
    /\ pc = "done"
    /\ pc' = "idle"
    /\ fetched' = <<>>
    /\ matches' = <<>>
    /\ idx' = 1
    /\ output_rows' = <<>>
    /\ alerts_sent' = 0
    /\ sends' = <<>>
    /\ csv_rows' = <<>>
    /\ csv_saved' = "none"
    /\ UNCHANGED <<telegram_env, exit_code, runs, calls, enters, errors,
                   scVars, dVars>>

Next == StartMain \/ ProcessMatch \/ SaveCsv \/ ReturnMain

Spec == Init /\ [][Next]_vars

----------------------------------------------------------------------------
(* Properties.                                                             *)

Range(seq) == { seq[k] : k \in 1 .. Len(seq) }

Liq(row) == Get(row, "liquidity", 0)

HasOdds(m) == "odds_over25" \in DOMAIN m

Nominal(m) == \A k \in SignalKeys : k \in DOMAIN m

AllZero(m) ==
    /\ Nominal(m)
    /\ m["pressure"] = 0 /\ m["xg_total"] = 0 /\ m["sot"] = 0 /\ m["liquidity"] = 0

AllMaxed(m) ==
    /\ Nominal(m)
    /\ m["pressure"] = 100 /\ m["xg_total"] >= 300 /\ m["sot"] >= 10
    /\ m["liquidity"] >= 3000000

SendFailed == \E k \in 1 .. Len(sends) : sends[k].result # "sent"

NoneQualifies ==
    \A k \in 1 .. Len(output_rows) :
        output_rows[k]["decision"] \notin {"ENTRAR", "MONITORAR"}

(* Every fetched record has exactly one row, carrying its values.          *)
RowsCoverFetched ==
    /\ Len(output_rows) = Len(fetched)
    /\ \A k \in 1 .. Len(fetched) :
         /\ Cardinality({ j \in 1 .. Len(output_rows) :
                             output_rows[j]["id"] = fetched[k]["id"] }) = 1
         /\ \E j \in 1 .. Len(output_rows) :
              \A key \in DOMAIN fetched[k] : output_rows[j][key] = fetched[k][key]

(* C1 (as claimed): an identity decided ENTRAR in every one of the runs of *)
(* main made so far has had exactly one send_telegram call, and no         *)
(* identity ever has a second one.                                         *)
C1_OneAlertPerIdentity ==
    \A i \in Ids :
        /\ calls[i] <= 1
        /\ (pc = "idle" /\ runs >= 1 /\ enters[i] = runs) => calls[i] = 1

(* C2 (as claimed): with the odds fixed and s1 <= s2, ENTRAR at s1 gives   *)
(* ENTRAR at s2 and MONITORAR at s1 never gives IGNORAR at s2.             *)
C2_MonotonicInScore ==
    (d_r1 # NoResult /\ d_s1 <= d_s2) =>
        /\ d_r1 = "ENTRAR" => d_r2 = "ENTRAR"
        /\ d_r1 = "MONITORAR" => d_r2 # "IGNORAR"

(* C2 (amended): with the odds fixed and s1 <= s2, ENTRAR at s1 gives      *)
(* ENTRAR at s2; MONITORAR at s1 never gives IGNORAR at s2 when the odds   *)
(* (99 when missing) reach ODD_MIN; when they do not, MONITORAR at s1      *)
(* gives IGNORAR at s2 exactly when s2 reaches EV_THRESHOLD.               *)
C2_MonotonicWhereOddsAllow ==
    (d_r1 # NoResult /\ d_s1 <= d_s2) =>
        /\ d_r1 = "ENTRAR" => d_r2 = "ENTRAR"
        /\ (d_r1 = "MONITORAR" /\ Get(d_match, "odds_over25", 9900) >= 150)
              => d_r2 # "IGNORAR"
        /\ (d_r1 = "MONITORAR" /\ Get(d_match, "odds_over25", 9900) < 150)
              => (d_r2 = "IGNORAR" <=> d_s2 >= 65)

C2_Witness ==
    /\ d_s1 = 60 /\ d_s2 = 70
    /\ HasOdds(d_match) /\ d_match["odds_over25"] = 144
    /\ d_r1 = "MONITORAR" /\ d_r2 = "IGNORAR"

(* C3 (as claimed): a record without odds is never decided ENTRAR.         *)
C3_MissingOddsNeverEnter ==
    (d_r1 # NoResult /\ ~HasOdds(d_match)) => d_r1 \in {"MONITORAR", "IGNORAR"}

(* C4: for a record whose fields lie in their domains, compute_ev_score    *)
(* returns an integer from 0 to 100.                                       *)
C4_ScoreInRange ==
    (sc_out # <<>> /\ ~score_raises(sc_match)) =>
        (sc_out[1] = "ok" /\ sc_out[2] \in 0 .. 100)

C4_Witness ==
    /\ sc_out # <<>>
    /\ Nominal(sc_match)
    /\ sc_match["xg_total"] > 300 /\ sc_match["sot"] > 10
    /\ sc_match["liquidity"] > 3000000 /\ sc_match["pressure"] = 100

(* C5 (as claimed): all signals zero score 10; all signals at or above     *)
(* their caps score 100.                                                   *)
C5_BoundaryValues ==
    sc_out # <<>> =>
        /\ AllZero(sc_match) => sc_out = <<"ok", 10>>
        /\ AllMaxed(sc_match) => sc_out = <<"ok", 100>>

(* C5 (amended): all signals zero score 10; all signals at or above their  *)
(* caps score 90.                                                          *)
C5_BoundaryValuesAre10And90 ==
    sc_out # <<>> =>
        /\ AllZero(sc_match) => sc_out = <<"ok", 10>>
        /\ AllMaxed(sc_match) => sc_out = <<"ok", 90>>

C5_Witness ==
    /\ sc_out = <<"ok", 90>>
    /\ AllMaxed(sc_match)

(* C6 (as claimed): after an exception in a run of main the process is     *)
(* still alive and main is over, so that a later run can start.            *)
C6_FailedCycleKeepsProcess ==
    errors # <<>> => (exit_code = NotExited /\ pc \in {"done", "idle"})

(* C7: when a run of main ends with no record decided ENTRAR or MONITORAR, *)
(* send_telegram was not called in it and save_csv received one row for    *)
(* every record the fetcher returned.                                      *)
C7_NothingQualifies ==
    (pc = "done" /\ NoneQualifies) =>
        /\ sends = <<>>
        /\ csv_rows = <<output_rows>>
        /\ RowsCoverFetched

C7_Witness ==
    /\ pc = "done"
    /\ Len(fetched) >= 2
    /\ NoneQualifies
    /\ sends = <<>>
    /\ csv_rows = <<output_rows>>

(* C8: the records are processed in descending order of       *)
(* (score, liquidity): score first, liquidity only between equal scores.   *)
C8_OrderedByScoreThenLiquidity ==
    \A i, j \in 1 .. Len(output_rows) :
        i < j =>
            \/ output_rows[i]["ev_score"] > output_rows[j]["ev_score"]
            \/ /\ output_rows[i]["ev_score"] = output_rows[j]["ev_score"]
               /\ Liq(output_rows[i]) >= Liq(output_rows[j])

(* C9: with the default thresholds the decision is ENTRAR exactly when     *)
(* score >= 65 and odds >= 1.50, MONITORAR exactly when 55 <= score < 65   *)
(* and it is not ENTRAR, IGNORAR otherwise; 72 at 1.60 is ENTRAR, 60 at    *)
(* 1.60 is MONITORAR, anything below 55 is IGNORAR.                        *)
C9_PriorityRule ==
    (d_r1 # NoResult /\ HasOdds(d_match)) =>
        /\ d_r1 \in {"ENTRAR", "MONITORAR", "IGNORAR"}
        /\ d_r1 = "ENTRAR" <=> (d_s1 >= 65 /\ d_match["odds_over25"] >= 150)
        /\ d_r1 = "MONITORAR" <=> (55 <= d_s1 /\ d_s1 < 65)
        /\ d_s1 < 55 => d_r1 = "IGNORAR"
        /\ (d_s1 = 72 /\ d_match["odds_over25"] = 160) => d_r1 = "ENTRAR"
        /\ (d_s1 = 60 /\ d_match["odds_over25"] = 160) => d_r1 = "MONITORAR"

C9_Witness ==
    /\ HasOdds(d_match) /\ d_match["odds_over25"] = 160
    /\ d_s1 = 72 /\ d_r1 = "ENTRAR"
    /\ d_s2 = 60 /\ d_r2 = "MONITORAR"

(* C10: a send_telegram call that does not succeed is never the origin of  *)
(* an exception in main; the loop goes on with a row for every record      *)
(* passed, and a run that ends after such a call has called send_telegram  *)
(* for every ENTRAR row and handed save_csv one row per fetched record.    *)
C10_SendFailureDoesNotAbort ==
    /\ "send_telegram" \notin Range(errors)
    /\ (SendFailed /\ pc = "loop") => Len(output_rows) = idx - 1
    /\ (SendFailed /\ pc = "done") =>
          /\ csv_rows = <<output_rows>>
          /\ RowsCoverFetched
          /\ \A k \in 1 .. Len(output_rows) :
                output_rows[k]["decision"] = "ENTRAR" =>
                    \E a \in 1 .. Len(sends) : sends[a].id = output_rows[k]["id"]

C10_Witness ==
    /\ pc = "done"
    /\ Len(sends) >= 2
    /\ sends[1].result = "failed"
    /\ sends[2].result = "sent"
    /\ alerts_sent = 1
    /\ csv_rows = <<output_rows>>

====
